---- MODULE Spec2Model ----
(***************************************************************************)
(* Flight profitability report (src/planning.js).                          *)
(*                                                                         *)
(* Text is modelled as TLA+ strings read character by character (Len,      *)
(* SubSeq, \o), so that parsing and formatting are computed and not        *)
(* assumed.  A CSV table is a sequence of rows, a row a sequence of        *)
(* strings, exactly as readCsv returns them.                               *)
(*                                                                         *)
(* Numbers: parseInt/parseFloat yield an integer or NaN, written as the    *)
(* record [nan, v].  Money is carried in hundredths (see Scale): with      *)
(* whole-number prices, distances and cost figures the exact value of      *)
(* every monetary figure is a whole number of hundredths, the doubles of   *)
(* the program differ from it by far less than 0.005, and toFixed(2)       *)
(* therefore prints exactly that value.                                    *)
(***************************************************************************)
EXTENDS Integers, Sequences, FiniteSets, TLC

VARIABLES
    files,          \* what fs.readFileSync yields per file name: [ok, data]
    written,        \* the fs.writeFileSync calls so far: <<[filename, data]>>
    console,        \* the console.log / console.error lines so far
    pc,             \* position in generateFlightReport, or "idle"
    airportsData,   \* generateFlightReport's locals (planning.js 120-125)
    aeroplanesData,
    validFlightData,
    invalidFlightData,
    validOut,       \* { results, errorMessages } of line 129, once computed
    invalidOut,     \* { invalidResults, invalidErrorMessages } of line 148
    airports,       \* the tables handed to direct calls of the exported
    aeroplanes,     \*   functions (part_001 12-20)
    lastCall        \* the last direct call of an exported function

vars == <<files, written, console, pc, airportsData, aeroplanesData,
          validFlightData, invalidFlightData, validOut, invalidOut,
          airports, aeroplanes, lastCall>>

-----------------------------------------------------------------------------
(* Bounds of the model *)

\* most flight requests in one processFlights / writeResultsToFile call
MaxBatch == 3
\* most data rows in a generated CSV content handed to readCsv
MaxRows == 2

-----------------------------------------------------------------------------
(* JavaScript strings *)

At(s, i) == SubSeq(s, i, i)

LF == "\n"

\* the white space String.prototype.trim removes (of the characters modelled)
IsSpace(c) == c \in {" ", "\t", "\r", "\n"}

RECURSIVE trimStart(_)
trimStart(s) ==
    IF Len(s) > 0 /\ IsSpace(At(s, 1)) THEN trimStart(SubSeq(s, 2, Len(s))) ELSE s

RECURSIVE trimEnd(_)
trimEnd(s) ==
    IF Len(s) > 0 /\ IsSpace(At(s, Len(s))) THEN trimEnd(SubSeq(s, 1, Len(s) - 1)) ELSE s

trim(s) == trimEnd(trimStart(s))

\* String.prototype.indexOf for a one-character needle, 0 when absent
\* (positions are 1-based here)
indexOf(s, c) ==
    LET hits == {i \in 1..Len(s) : At(s, i) = c}
    IN  IF hits = {} THEN 0 ELSE CHOOSE i \in hits : \A j \in hits : i <= j

includes(s, c) == indexOf(s, c) # 0

\* String.prototype.split on a one-character separator: "" gives <<"">>
RECURSIVE split(_, _)
split(s, c) ==
    LET k == indexOf(s, c)
    IN  IF k = 0 THEN <<s>>
        ELSE <<SubSeq(s, 1, k - 1)>> \o split(SubSeq(s, k + 1, Len(s)), c)

\* Array.prototype.join
RECURSIVE join(_, _)
join(a, sep) ==
    IF Len(a) = 0 THEN ""
    ELSE IF Len(a) = 1 THEN a[1]
    ELSE a[1] \o sep \o join(Tail(a), sep)

\* String.prototype.replace(c, ''): the first occurrence only
removeFirst(s, c) ==
    LET k == indexOf(s, c)
    IN  IF k = 0 THEN s ELSE SubSeq(s, 1, k - 1) \o SubSeq(s, k + 1, Len(s))

-----------------------------------------------------------------------------
(* JavaScript numbers *)

NaN == [nan |-> TRUE, v |-> 0]
Num(n) == [nan |-> FALSE, v |-> n]

Add(a, b) == IF a.nan \/ b.nan THEN NaN ELSE Num(a.v + b.v)
Sub(a, b) == IF a.nan \/ b.nan THEN NaN ELSE Num(a.v - b.v)
Mul(a, b) == IF a.nan \/ b.nan THEN NaN ELSE Num(a.v * b.v)
\* a > b: false as soon as either side is NaN
Gt(a, b) == ~a.nan /\ ~b.nan /\ a.v > b.v

DigitChars == <<"0", "1", "2", "3", "4", "5", "6", "7", "8", "9">>
IsDigit(c) == \E d \in 1..10 : DigitChars[d] = c
DigitVal(c) == (CHOOSE d \in 1..10 : DigitChars[d] = c) - 1

\* the value of the longest run of decimal digits starting at position i,
\* acc being the value read so far and seen whether a digit was read
RECURSIVE digitsFrom(_, _, _, _)
digitsFrom(s, i, acc, seen) ==
    IF i <= Len(s) /\ IsDigit(At(s, i))
    THEN digitsFrom(s, i + 1, acc * 10 + DigitVal(At(s, i)), TRUE)
    ELSE IF seen THEN Num(acc) ELSE NaN

\* leading white space is skipped, an optional sign read, then the digits;
\* whatever follows the digits is ignored; no digit at all gives NaN
leadingNumber(s) ==
    LET t == trimStart(s)
        signed == Len(t) > 0 /\ At(t, 1) \in {"+", "-"}
        n == digitsFrom(t, IF signed THEN 2 ELSE 1, 0, FALSE)
    IN  IF signed /\ At(t, 1) = "-" THEN Sub(Num(0), n) ELSE n

\* parseInt(s) and parseFloat(s).  The texts of this model carry no "0x"
\* prefix, no decimal point and no exponent after their digits, and on such
\* texts both functions read the leading whole number.
parseInt(s) == leadingNumber(s)
parseFloat(s) == leadingNumber(s)

\* Number -> String, as a template literal does it
RECURSIVE natToString(_)
natToString(n) ==
    IF n < 10 THEN DigitChars[n + 1]
    ELSE natToString(n \div 10) \o DigitChars[(n % 10) + 1]

numToString(a) ==
    IF a.nan THEN "NaN"
    ELSE IF a.v < 0 THEN "-" \o natToString(-a.v)
    ELSE natToString(a.v)

\* the factor between a monetary figure and its representation here; it is
\* the 100 the running cost is divided by and the two decimals of toFixed(2)
Scale == 100

\* Number.prototype.toFixed(2) of a figure given in hundredths
toFixed2(a) ==
    IF a.nan THEN "NaN"
    ELSE LET m == IF a.v < 0 THEN -a.v ELSE a.v
             frac == m % Scale
         IN  (IF a.v < 0 THEN "-" ELSE "")
             \o natToString(m \div Scale) \o "."
             \o DigitChars[(frac \div 10) + 1] \o DigitChars[(frac % 10) + 1]

-----------------------------------------------------------------------------
(* Outcomes of a call *)

Throw(msg) == [threw |-> TRUE, message |-> msg]
Return(v) == [threw |-> FALSE, value |-> v]

-----------------------------------------------------------------------------
(* readCsv (planning.js 4-26) *)

\* the loop of lines 10-21 over rows[i..], data being the rows pushed so far
\* (rows is 1-based here: the header is rows[1], the loop starts at rows[2])
RECURSIVE readCsvLoop(_, _, _, _)
readCsvLoop(rows, i, delimiter, data) ==
    IF i > Len(rows) THEN data
    ELSE LET trimmed == trim(rows[i])
             row == IF includes(trimmed, "#")
                    THEN trim(split(trimmed, "#")[1])
                    ELSE trimmed
         IN  readCsvLoop(rows, i + 1, delimiter,
                         IF row # "" THEN Append(data, split(row, delimiter)) ELSE data)

\* a failed read answered with no rows instead of an error
readCsvWithSwallow(file, delimiter) ==
    IF ~file.ok THEN Return(<<>>)
    ELSE Return(readCsvLoop(split(file.data, LF), 2, delimiter, <<>>))

\* the loop started at the first line: the header is not skipped
readCsvWithHeader(file, delimiter) ==
    IF ~file.ok THEN Throw("Error reading file: " \o file.data)
    ELSE Return(readCsvLoop(split(file.data, LF), 1, delimiter, <<>>))

\* file is what fs.readFileSync does for the file name: it returns the
\* content (ok) or throws an error whose message is data
readCsvWith(file, delimiter) ==
    IF ~file.ok THEN Throw("Error reading file: " \o file.data)
    ELSE Return(readCsvLoop(split(file.data, LF), 2, delimiter, <<>>))

readCsv(file) == readCsvWith(file, ",")

-----------------------------------------------------------------------------
(* validateAndCalculateProfit (planning.js 29-89) *)

\* Array.prototype.find(row => row[0] === key): the index of the first row
\* whose first column is key, 0 when there is none
RECURSIVE findFrom(_, _, _)
findFrom(table, key, i) ==
    IF i > Len(table) THEN 0
    ELSE IF table[i][1] = key THEN i
    ELSE findFrom(table, key, i + 1)

find(table, key) == findFrom(table, key, 1)

\* line 36 comparing the origin code with its white space dropped
distanceOfTrimmed(ukAirportCode, airportData) ==
    IF trim(ukAirportCode) = "MAN" THEN parseFloat(airportData[3])
    ELSE parseFloat(airportData[4])

\* line 36: the distance column the origin selects
distanceOf(ukAirportCode, airportData) ==
    IF ukAirportCode = "MAN" THEN parseFloat(airportData[3]) ELSE parseFloat(airportData[4])

\* line 42 without the division by 100
runningCostOfUnscaled(aircraftData) ==
    Mul(parseFloat(removeFirst(aircraftData[2], "£")), Num(Scale))

\* line 42, in hundredths: parseFloat(figure without the pound sign) / 100
runningCostOf(aircraftData) == parseFloat(removeFirst(aircraftData[2], "£"))

\* lines 50-52
rangeCheck(distance, maxRange) == Gt(distance, maxRange)

\* the comparison off by one: one seat too many is let through
overbookedOffByOne(booked, available) == Gt(booked, Add(available, Num(1)))

\* lines 56, 61, 64, 67: booked against available
overbooked(booked, available) == Gt(booked, available)

\* lines 71-88, the figures of a flight that passed every check; income is
\* brought to hundredths, runningCost already is in hundredths
figures(flight, distance, runningCost, totalSeatsBooked) ==
    LET totalIncome == Add(Add(Mul(parseInt(flight[4]), parseFloat(flight[7])),
                               Mul(parseInt(flight[5]), parseFloat(flight[8]))),
                           Mul(parseInt(flight[6]), parseFloat(flight[9])))
        costPerSeat == Mul(runningCost, distance)
        totalCost == Mul(costPerSeat, totalSeatsBooked)
        profit == Sub(Mul(totalIncome, Num(Scale)), totalCost)
    IN  [flightDetails |-> flight,
         income |-> toFixed2(Mul(totalIncome, Num(Scale))),
         cost |-> toFixed2(totalCost),
         profit |-> toFixed2(profit)]

\* lines 55-69 with the total check moved behind the class checks
bookingCheckClassesFirst(flight, aircraftData) ==
    LET econSeats == flight[4]
        busSeats == flight[5]
        firstSeats == flight[6]
        economySeatsAvailable == parseInt(aircraftData[4])
        businessSeatsAvailable == parseInt(aircraftData[5])
        firstClassSeatsAvailable == parseInt(aircraftData[6])
        totalSeats == Add(Add(economySeatsAvailable, businessSeatsAvailable),
                          firstClassSeatsAvailable)
        totalSeatsBooked == Add(Add(parseInt(econSeats), parseInt(busSeats)),
                                parseInt(firstSeats))
    IN  IF overbooked(parseInt(econSeats), economySeatsAvailable)
        THEN Throw("Too many economy seats booked (" \o econSeats
                   \o " > " \o numToString(economySeatsAvailable) \o ")")
        ELSE IF overbooked(parseInt(busSeats), businessSeatsAvailable)
        THEN Throw("Too many business seats booked (" \o busSeats
                   \o " > " \o numToString(businessSeatsAvailable) \o ")")
        ELSE IF overbooked(parseInt(firstSeats), firstClassSeatsAvailable)
        THEN Throw("Too many first-class seats booked (" \o firstSeats
                   \o " > " \o numToString(firstClassSeatsAvailable) \o ")")
        ELSE IF overbooked(totalSeatsBooked, totalSeats)
        THEN Throw("Too many total seats booked (" \o numToString(totalSeatsBooked)
                   \o " > " \o numToString(totalSeats) \o ")")
        ELSE Return(totalSeatsBooked)

\* lines 55-69 with the first-class seats compared with the business capacity
bookingCheckWrongCapacity(flight, aircraftData) ==
    LET econSeats == flight[4]
        busSeats == flight[5]
        firstSeats == flight[6]
        economySeatsAvailable == parseInt(aircraftData[4])
        businessSeatsAvailable == parseInt(aircraftData[5])
        firstClassSeatsAvailable == parseInt(aircraftData[6])
        totalSeats == Add(Add(economySeatsAvailable, businessSeatsAvailable),
                          firstClassSeatsAvailable)
        totalSeatsBooked == Add(Add(parseInt(econSeats), parseInt(busSeats)),
                                parseInt(firstSeats))
    IN  IF overbooked(totalSeatsBooked, totalSeats)
        THEN Throw("Too many total seats booked (" \o numToString(totalSeatsBooked)
                   \o " > " \o numToString(totalSeats) \o ")")
        ELSE IF overbooked(parseInt(econSeats), economySeatsAvailable)
        THEN Throw("Too many economy seats booked (" \o econSeats
                   \o " > " \o numToString(economySeatsAvailable) \o ")")
        ELSE IF overbooked(parseInt(busSeats), businessSeatsAvailable)
        THEN Throw("Too many business seats booked (" \o busSeats
                   \o " > " \o numToString(businessSeatsAvailable) \o ")")
        ELSE IF overbooked(parseInt(firstSeats), businessSeatsAvailable)
        THEN Throw("Too many first-class seats booked (" \o firstSeats
                   \o " > " \o numToString(firstClassSeatsAvailable) \o ")")
        ELSE Return(totalSeatsBooked)

\* lines 44-69 with the first-class seats left out of totalSeats (47)
bookingCheckTotalOfTwo(flight, aircraftData) ==
    LET econSeats == flight[4]
        busSeats == flight[5]
        firstSeats == flight[6]
        economySeatsAvailable == parseInt(aircraftData[4])
        businessSeatsAvailable == parseInt(aircraftData[5])
        firstClassSeatsAvailable == parseInt(aircraftData[6])
        totalSeats == Add(economySeatsAvailable, businessSeatsAvailable)
        totalSeatsBooked == Add(Add(parseInt(econSeats), parseInt(busSeats)),
                                parseInt(firstSeats))
    IN  IF overbooked(totalSeatsBooked, totalSeats)
        THEN Throw("Too many total seats booked (" \o numToString(totalSeatsBooked)
                   \o " > " \o numToString(totalSeats) \o ")")
        ELSE IF overbooked(parseInt(econSeats), economySeatsAvailable)
        THEN Throw("Too many economy seats booked (" \o econSeats
                   \o " > " \o numToString(economySeatsAvailable) \o ")")
        ELSE IF overbooked(parseInt(busSeats), businessSeatsAvailable)
        THEN Throw("Too many business seats booked (" \o busSeats
                   \o " > " \o numToString(businessSeatsAvailable) \o ")")
        ELSE IF overbooked(parseInt(firstSeats), firstClassSeatsAvailable)
        THEN Throw("Too many first-class seats booked (" \o firstSeats
                   \o " > " \o numToString(firstClassSeatsAvailable) \o ")")
        ELSE Return(totalSeatsBooked)

\* lines 44-47 and 54-69: the seat checks in the order of the code; the
\* first one that fails throws, and when none does the total booked is known
bookingCheck(flight, aircraftData) ==
    LET econSeats == flight[4]
        busSeats == flight[5]
        firstSeats == flight[6]
        economySeatsAvailable == parseInt(aircraftData[4])
        businessSeatsAvailable == parseInt(aircraftData[5])
        firstClassSeatsAvailable == parseInt(aircraftData[6])
        totalSeats == Add(Add(economySeatsAvailable, businessSeatsAvailable),
                          firstClassSeatsAvailable)
        totalSeatsBooked == Add(Add(parseInt(econSeats), parseInt(busSeats)),
                                parseInt(firstSeats))
    IN  IF overbooked(totalSeatsBooked, totalSeats)
        THEN Throw("Too many total seats booked (" \o numToString(totalSeatsBooked)
                   \o " > " \o numToString(totalSeats) \o ")")
        ELSE IF overbooked(parseInt(econSeats), economySeatsAvailable)
        THEN Throw("Too many economy seats booked (" \o econSeats
                   \o " > " \o numToString(economySeatsAvailable) \o ")")
        ELSE IF overbooked(parseInt(busSeats), businessSeatsAvailable)
        THEN Throw("Too many business seats booked (" \o busSeats
                   \o " > " \o numToString(businessSeatsAvailable) \o ")")
        ELSE IF overbooked(parseInt(firstSeats), firstClassSeatsAvailable)
        THEN Throw("Too many first-class seats booked (" \o firstSeats
                   \o " > " \o numToString(firstClassSeatsAvailable) \o ")")
        ELSE Return(totalSeatsBooked)

\* line 40, the check left out: the next line then reads a column of undefined
invalidAircraftUnchecked(aircraftType) ==
    Throw("Cannot read properties of undefined (reading '1')")

\* line 40
invalidAircraft(aircraftType) == Throw("Invalid aircraft type: " \o aircraftType)

\* lines 36-88, once the airport row is found
withAirport(flight, airportData, planes) ==
    LET ukAirportCode == flight[1]
        overseasAirportCode == flight[2]
        aircraftType == flight[3]
        distance == distanceOf(ukAirportCode, airportData)
        k == find(planes, aircraftType)
        aircraftData == planes[k]
        runningCost == runningCostOf(aircraftData)
        maxRange == parseFloat(aircraftData[3])
        booking == bookingCheck(flight, aircraftData)
    IN  IF k = 0 THEN invalidAircraft(aircraftType)
        ELSE IF rangeCheck(distance, maxRange)
        THEN Throw(aircraftType \o " doesn't have the range to fly to "
                   \o overseasAirportCode)
        ELSE IF booking.threw THEN booking
        ELSE Return(figures(flight, distance, runningCost, booking.value))

\* lines 33-40 with the aircraft looked up before the airport
validateAircraftFirst(flight, ports, planes) ==
    LET j == find(ports, flight[2])
    IN  IF find(planes, flight[3]) = 0 THEN invalidAircraft(flight[3])
        ELSE IF j = 0 THEN Throw("Invalid airport code: " \o flight[2])
        ELSE withAirport(flight, ports[j], planes)

\* flight has its nine columns, every airport row four and every aircraft
\* row six, as in the tables of the repository
validateAndCalculateProfit(flight, ports, planes) ==
    LET j == find(ports, flight[2])
    IN  IF j = 0 THEN Throw("Invalid airport code: " \o flight[2])
        ELSE withAirport(flight, ports[j], planes)

-----------------------------------------------------------------------------
\* lines 40-42 storing the figure it parsed back into the aircraft row
validateArgumentsStoring(flight, ports, planes) ==
    [flight |-> flight,
     airports |-> ports,
     aeroplanes |-> IF find(ports, flight[2]) # 0
                    THEN [k \in 1..Len(planes) |->
                            IF planes[k][1] = flight[3]
                            THEN [planes[k] EXCEPT ![2] = removeFirst(@, "£")]
                            ELSE planes[k]]
                    ELSE planes]

\* What the three arguments hold when validateAndCalculateProfit returns or
\* throws.  Lines 30-88 only read them: the destructuring of line 30, find
\* (33, 39), the indexing of the rows found, replace (42), which returns a
\* new string, parseInt and parseFloat; no statement assigns to an argument
\* or to an element of one, and flightDetails (84) is the request itself.
validateArguments(flight, ports, planes) ==
    [flight |-> flight, airports |-> ports, aeroplanes |-> planes]

(* processFlights (planning.js 92-106) *)

\* lines 96-103 without isolation: the first failure ends the batch
RECURSIVE processFromAbort(_, _, _, _, _, _)
processFromAbort(flights, i, ports, planes, results, errorMessages) ==
    IF i > Len(flights) THEN [results |-> results, errorMessages |-> errorMessages]
    ELSE LET flight == flights[i]
             r == validateAndCalculateProfit(flight, ports, planes)
         IN  IF ~r.threw
             THEN processFromAbort(flights, i + 1, ports, planes,
                                   Append(results, r.value), errorMessages)
             ELSE [results |-> results,
                   errorMessages |-> Append(errorMessages,
                                            "Flight Data: " \o join(flight, ", ")
                                            \o " - Error: " \o r.message)]

\* the forEach of lines 96-103 from flights[i] on
RECURSIVE processFrom(_, _, _, _, _, _)
processFrom(flights, i, ports, planes, results, errorMessages) ==
    IF i > Len(flights) THEN [results |-> results, errorMessages |-> errorMessages]
    ELSE LET flight == flights[i]
             r == validateAndCalculateProfit(flight, ports, planes)
         IN  IF ~r.threw
             THEN processFrom(flights, i + 1, ports, planes,
                              Append(results, r.value), errorMessages)
             ELSE processFrom(flights, i + 1, ports, planes, results,
                              Append(errorMessages,
                                     "Flight Data: " \o join(flight, ", ")
                                     \o " - Error: " \o r.message))

processFlights(flights, ports, planes) == processFrom(flights, 1, ports, planes, <<>>, <<>>)

\* What the three arguments hold when processFlights returns: forEach (96)
\* and join (101) read the list, and each request goes through
\* validateAndCalculateProfit with the tables as the call before left them.
RECURSIVE processArgumentsFrom(_, _, _, _)
processArgumentsFrom(flights, i, ports, planes) ==
    IF i > Len(flights) THEN [flights |-> flights, airports |-> ports, aeroplanes |-> planes]
    ELSE LET after == validateArguments(flights[i], ports, planes)
         IN  processArgumentsFrom([flights EXCEPT ![i] = after.flight], i + 1,
                                  after.airports, after.aeroplanes)

processArguments(flights, ports, planes) == processArgumentsFrom(flights, 1, ports, planes)

-----------------------------------------------------------------------------
(* writeResultsToFile (planning.js 109-115) *)

\* line 111
reportLine(result) ==
    "Flight: " \o join(result.flightDetails, ", ")
    \o " | Income: £" \o result.income
    \o " | Cost: £" \o result.cost
    \o " | Profit: £" \o result.profit

RECURSIVE mapReportLine(_)
mapReportLine(results) ==
    IF Len(results) = 0 THEN <<>>
    ELSE <<reportLine(results[1])>> \o mapReportLine(Tail(results))

\* lines 110-112 with every line ended by a newline
reportTextTerminated(results) ==
    IF Len(results) = 0 THEN "" ELSE join(mapReportLine(results), LF) \o LF

\* lines 110-112: the text handed to fs.writeFileSync
reportText(results) == join(mapReportLine(results), LF)

\* the written files after writeResultsToFile(results, filename)
writeResultsToFile(results, filename, w) ==
    Append(w, [filename |-> filename, data |-> reportText(results)])

-----------------------------------------------------------------------------
(* The tables and requests of the test suite (part_001 12-31) *)

AirportsTable ==
    << <<"JFK", "John F Kennedy International", "5376", "5583">>,
       <<"ORY", "Paris-Orly", "610", "325">> >>

\* an airport at the very range of the Medium narrow body (2650) from MAN and
\* one kilometre beyond it from anywhere else
EdgeAirport == <<"EDG", "Range edge", "2650", "2651">>

\* the airport table handed to the functions called directly: that of the
\* test suite and the airport at the edge
Airports == AirportsTable \o <<EdgeAirport>>

AeroplanesTable ==
    << <<"Medium narrow body", "£8", "2650", "160", "12", "0">>,
       <<"Large narrow body", "£7", "5600", "180", "20", "4">> >>

ValidFlight1 == <<"MAN", "JFK", "Large narrow body", "150", "12", "2", "399", "999", "1899">>
ValidFlight2 == <<"LGW", "ORY", "Medium narrow body", "120", "8", "0", "150", "450", "0">>
InvalidFlight1 == <<"MAN", "JFK", "Medium narrow body", "150", "12", "2", "399", "999", "1899">>
InvalidFlight2 == <<"LGW", "ORY", "Large narrow body", "200", "25", "5", "450", "1200", "2500">>
InvalidFlight3 == <<"LGW", "INVALID", "Medium narrow body", "120", "8", "0", "150", "450", "0">>

FixtureFlights == {ValidFlight1, ValidFlight2, InvalidFlight1, InvalidFlight2, InvalidFlight3}

\* part_001 103-106: results written by hand, whose figures come from no
\* evaluation
SampleResults ==
    << [flightDetails |-> ValidFlight1, income |-> "75636.00", cost |-> "61732.80",
        profit |-> "13903.20"],
       [flightDetails |-> ValidFlight2, income |-> "27600.00", cost |-> "12032.00",
        profit |-> "15568.00"] >>

\* The requests handed to validateAndCalculateProfit directly: every
\* combination of these columns, and the requests of the test suite.
\* MAN, another airport of the flights files, and codes of no airport, two of them
\* close to MAN
Origins == {"MAN", "LGW", "man", " MAN", "XXX"}
Destinations == {"JFK", "ORY", "EDG", "INVALID"}
AircraftTypes == {"Medium narrow body", "Large narrow body", "Jumbo"}
EconomyBookings == {"150", "180", "181", "200", "abc"}
BusinessBookings == {"12", "20", "21", "25"}
FirstBookings == {"0", "2", "4", "5"}
Prices == {<<"399", "999", "1899">>, <<"150", "450", "0">>}

Requests ==
    FixtureFlights \cup
    { <<o, d, a, e, b, f, p[1], p[2], p[3]>> :
        o \in Origins, d \in Destinations, a \in AircraftTypes, e \in EconomyBookings,
        b \in BusinessBookings, f \in FirstBookings, p \in Prices }

\* the lists handed to processFlights directly
Batches == UNION { [1..n -> FixtureFlights] : n \in 0..MaxBatch }

-----------------------------------------------------------------------------
(* The files (part_001 36, 48, 121-126) *)

FileNames == {"airports.csv", "aeroplanes.csv", "valid_flight_data.csv",
              "invalid_flight_data.csv", "dummy.csv"}

ReportFile == "flight_profitability_report.txt"

Content(text) == [ok |-> TRUE, data |-> text]
\* fs.readFileSync throws: the file does not exist
Missing(name) == [ok |-> FALSE, data |-> "ENOENT: no such file or directory, open '"
                                          \o name \o "'"]

FlightsHeader ==
    "UK airport,Overseas airport,Type of aircraft,Number of economy seats booked,"
    \o "Number of business seats booked,Number of first class seats booked,"
    \o "Price of a economy class seat,Price of a business class seat,"
    \o "Price of a first class seat"

AirportsCsv ==
    "code,full name,distanceMAN,distanceLGW" \o LF
    \o "JFK,John F Kennedy International,5376,5583" \o LF
    \o "ORY,Paris-Orly,610,325"

AeroplanesCsv ==
    "type,runningcostperseatper100km,maxflightrange(km),economyseats,businessseats,"
    \o "firstclassseats" \o LF
    \o "Medium narrow body,£8,2650,160,12,0" \o LF
    \o "Large narrow body,£7,5600,180,20,4"

ValidFlightsCsv ==
    FlightsHeader \o LF
    \o "MAN,JFK,Large narrow body,150,12,2,399,999,1899" \o LF
    \o "LGW,ORY,Medium narrow body,120,8,0,150,450,0"

InvalidFlightsCsv ==
    FlightsHeader \o LF
    \o "MAN,JFK,Medium narrow body,150,12,2,399,999,1899" \o LF
    \o "LGW,ORY,Large narrow body,200,25,5,450,1200,2500" \o LF
    \o "LGW,INVALID,Medium narrow body,120,8,0,150,450,0"

\* a flights file whose records fail, pass and fail, with a comment, a blank
\* line and a final newline
MixedFlightsCsv ==
    FlightsHeader \o LF
    \o "MAN,JFK,Medium narrow body,150,12,2,399,999,1899 # too far" \o LF
    \o LF
    \o "LGW,ORY,Medium narrow body,120,8,0,150,450,0" \o LF
    \o "LGW,INVALID,Medium narrow body,120,8,0,150,450,0" \o LF

\* what the four input files may be when generateFlightReport runs; the
\* mock of part_001 121-126 tests the name for "valid" before "invalid", so
\* that invalid_flight_data.csv holds the valid flights there
FileChoices(name) ==
    {Missing(name)} \cup
    CASE name = "airports.csv" -> {Content(AirportsCsv)}
      [] name = "aeroplanes.csv" -> {Content(AeroplanesCsv)}
      [] name = "valid_flight_data.csv" -> {Content(ValidFlightsCsv), Content(MixedFlightsCsv)}
      [] name = "invalid_flight_data.csv" -> {Content(InvalidFlightsCsv), Content(MixedFlightsCsv),
                                              Content(ValidFlightsCsv)}

\* the files of the repository, before any test replaces them
DefaultFiles ==
    [name \in FileNames |->
        CASE name = "airports.csv" -> Content(AirportsCsv)
          [] name = "aeroplanes.csv" -> Content(AeroplanesCsv)
          [] name = "valid_flight_data.csv" -> Content(ValidFlightsCsv)
          [] name = "invalid_flight_data.csv" -> Content(InvalidFlightsCsv)
          [] OTHER -> Missing(name)]

\* Generated CSV contents for readCsv: a header line, then data rows, each a
\* list of fields joined by the delimiter, with an optional comment suffix.
\* Every data row holds a character that is not white space.
HeaderChoices == {"header1,header2", "a"}
RowChoices == {<<"value1", "value2">>, <<"a">>, <<" a", "b ">>, <<"", "">>, <<"x", "", " z">>}
CommentChoices == {"", "#", " # note, with a comma", "#a#b"}

GeneratedRows == [fields : RowChoices, comment : CommentChoices]

Generated ==
    [header : HeaderChoices,
     rows : UNION { [1..n -> GeneratedRows] : n \in 0..MaxRows },
     finalNewline : BOOLEAN]

RECURSIVE renderRows(_)
renderRows(rows) ==
    IF Len(rows) = 0 THEN ""
    ELSE LF \o join(rows[1].fields, ",") \o rows[1].comment \o renderRows(Tail(rows))

render(g) == g.header \o renderRows(g.rows) \o (IF g.finalNewline THEN LF ELSE "")

-----------------------------------------------------------------------------
(* State *)

NoCall == [fn |-> "none"]
NotComputed == [done |-> FALSE, results |-> <<>>, errorMessages |-> <<>>]

Init ==
    /\ files = DefaultFiles
    /\ written = <<>>
    /\ console = <<>>
    /\ pc = "idle"
    /\ airportsData = <<>>
    /\ aeroplanesData = <<>>
    /\ validFlightData = <<>>
    /\ invalidFlightData = <<>>
    /\ validOut = NotComputed
    /\ invalidOut = NotComputed
    /\ airports = Airports
    /\ aeroplanes = AeroplanesTable
    /\ lastCall = NoCall

Idle == pc = "idle" /\ lastCall = NoCall

locals == <<airportsData, aeroplanesData, validFlightData, invalidFlightData,
            validOut, invalidOut>>
tables == <<airports, aeroplanes>>

-----------------------------------------------------------------------------
(* Direct calls of the exported functions (part_001 34-116) *)

CallReadCsv ==
    /\ Idle
    /\ \E g \in Generated :
        /\ files' = [files EXCEPT !["dummy.csv"] = Content(render(g))]
        /\ lastCall' = [fn |-> "readCsv", generated |-> g,
                        out |-> readCsv(files'["dummy.csv"])]
    /\ UNCHANGED <<written, console, pc, locals, tables>>

\* part_001 47-50: the read fails
CallReadCsvMissing ==
    /\ Idle
    /\ \E name \in FileNames :
        /\ files' = [files EXCEPT ![name] = Missing(name)]
        /\ lastCall' = [fn |-> "readCsv", missing |-> name, out |-> readCsv(files'[name])]
    /\ UNCHANGED <<written, console, pc, locals, tables>>

CallValidateAndCalculateProfit ==
    /\ Idle
    /\ \E flight \in Requests :
        LET after == validateArguments(flight, airports, aeroplanes)
        IN  /\ airports' = after.airports
            /\ aeroplanes' = after.aeroplanes
            /\ lastCall' = [fn |-> "validateAndCalculateProfit", flight |-> flight,
                            out |-> validateAndCalculateProfit(flight, airports, aeroplanes),
                            flightAfter |-> after.flight]
    /\ UNCHANGED <<files, written, console, pc, locals>>

CallProcessFlights ==
    /\ Idle
    /\ \E flights \in Batches :
        LET after == processArguments(flights, airports, aeroplanes)
        IN  /\ airports' = after.airports
            /\ aeroplanes' = after.aeroplanes
            /\ lastCall' = [fn |-> "processFlights", flights |-> flights,
                            out |-> processFlights(flights, airports, aeroplanes),
                            flightsAfter |-> after.flights]
    /\ UNCHANGED <<files, written, console, pc, locals>>

\* the results written are those of a processFlights call, or the hand-made
\* ones of part_001 103-106
CallWriteResultsToFile ==
    /\ Idle
    /\ \E results \in {processFlights(b, airports, aeroplanes).results : b \in Batches}
                      \cup {SampleResults} :
        /\ written' = writeResultsToFile(results, "output.txt", written)
        /\ lastCall' = [fn |-> "writeResultsToFile", results |-> results]
    /\ UNCHANGED <<files, console, pc, locals, tables>>

-----------------------------------------------------------------------------
(* generateFlightReport (planning.js 118-161), statement by statement *)

Log(text) == [stream |-> "log", text |-> text]
Error(text) == [stream |-> "error", text |-> text]

\* part_001 120-132: the test sets what the four files hold, then calls
CallGenerateFlightReport ==
    /\ Idle
    /\ \E a \in FileChoices("airports.csv"), p \in FileChoices("aeroplanes.csv"),
          v \in FileChoices("valid_flight_data.csv"),
          i \in FileChoices("invalid_flight_data.csv") :
        files' = [files EXCEPT !["airports.csv"] = a, !["aeroplanes.csv"] = p,
                               !["valid_flight_data.csv"] = v,
                               !["invalid_flight_data.csv"] = i]
    /\ pc' = "readAirports"
    /\ UNCHANGED <<written, console, locals, tables, lastCall>>

\* lines 158-160: the catch of the whole body
Caught(message) ==
    /\ console' = Append(console, Error(message))
    /\ pc' = "done"

\* line 120
ReadAirports ==
    /\ pc = "readAirports"
    /\ LET r == readCsv(files["airports.csv"])
       IN  IF r.threw
           THEN Caught(r.message) /\ UNCHANGED airportsData
           ELSE airportsData' = r.value /\ pc' = "readAeroplanes" /\ UNCHANGED console
    /\ UNCHANGED <<files, written, aeroplanesData, validFlightData, invalidFlightData,
                   validOut, invalidOut, tables, lastCall>>

\* line 121
ReadAeroplanes ==
    /\ pc = "readAeroplanes"
    /\ LET r == readCsv(files["aeroplanes.csv"])
       IN  IF r.threw
           THEN Caught(r.message) /\ UNCHANGED aeroplanesData
           ELSE aeroplanesData' = r.value /\ pc' = "readValid" /\ UNCHANGED console
    /\ UNCHANGED <<files, written, airportsData, validFlightData, invalidFlightData,
                   validOut, invalidOut, tables, lastCall>>

\* line 124
ReadValid ==
    /\ pc = "readValid"
    /\ LET r == readCsv(files["valid_flight_data.csv"])
       IN  IF r.threw
           THEN Caught(r.message) /\ UNCHANGED validFlightData
           ELSE validFlightData' = r.value /\ pc' = "readInvalid" /\ UNCHANGED console
    /\ UNCHANGED <<files, written, airportsData, aeroplanesData, invalidFlightData,
                   validOut, invalidOut, tables, lastCall>>

\* line 125
ReadInvalid ==
    /\ pc = "readInvalid"
    /\ LET r == readCsv(files["invalid_flight_data.csv"])
       IN  IF r.threw
           THEN Caught(r.message) /\ UNCHANGED invalidFlightData
           ELSE invalidFlightData' = r.value /\ pc' = "processValid" /\ UNCHANGED console
    /\ UNCHANGED <<files, written, airportsData, aeroplanesData, validFlightData,
                   validOut, invalidOut, tables, lastCall>>

\* lines 128-129; the three arrays of the condition are objects, hence truthy
ProcessValid ==
    /\ pc = "processValid"
    /\ LET r == processFlights(validFlightData, airportsData, aeroplanesData)
           after == processArguments(validFlightData, airportsData, aeroplanesData)
       IN  /\ validOut' = [done |-> TRUE, results |-> r.results,
                            errorMessages |-> r.errorMessages]
           /\ validFlightData' = after.flights
           /\ airportsData' = after.airports
           /\ aeroplanesData' = after.aeroplanes
    /\ pc' = "showValid"
    /\ UNCHANGED <<files, written, console, invalidFlightData, invalidOut, tables, lastCall>>

RECURSIVE validFlightLines(_)
validFlightLines(results) ==
    IF Len(results) = 0 THEN <<>>
    ELSE <<Log("Valid Flight: " \o join(results[1].flightDetails, ", ")
               \o " | Income: £" \o results[1].income
               \o " | Cost: £" \o results[1].cost
               \o " | Profit: £" \o results[1].profit)>>
         \o validFlightLines(Tail(results))

\* lines 132-134
ShowValid ==
    /\ pc = "showValid"
    /\ console' = console \o validFlightLines(validOut.results)
    /\ pc' = "writeReport"
    /\ UNCHANGED <<files, written, locals, tables, lastCall>>

\* line 137
WriteReport ==
    /\ pc = "writeReport"
    /\ written' = writeResultsToFile(validOut.results, ReportFile, written)
    /\ pc' = "showValidErrors"
    /\ UNCHANGED <<files, console, locals, tables, lastCall>>

errorLines(errorMessages) == [k \in 1..Len(errorMessages) |-> Error(errorMessages[k])]

\* lines 140-143
ShowValidErrors ==
    /\ pc = "showValidErrors"
    /\ console' = IF Len(validOut.errorMessages) > 0
                  THEN console
                       \o <<Log("Errors encountered in valid flight processing:")>>
                       \o errorLines(validOut.errorMessages)
                  ELSE console
    /\ pc' = "processInvalid"
    /\ UNCHANGED <<files, written, locals, tables, lastCall>>

\* lines 147-148 followed by a second writeResultsToFile, of invalidResults
ProcessInvalidWriting ==
    /\ pc = "processInvalid"
    /\ LET r == processFlights(invalidFlightData, airportsData, aeroplanesData)
       IN  /\ invalidOut' = [done |-> TRUE, results |-> r.results,
                              errorMessages |-> r.errorMessages]
           /\ written' = writeResultsToFile(r.results, ReportFile, written)
    /\ pc' = "showInvalidErrors"
    /\ UNCHANGED <<files, console, airportsData, aeroplanesData, invalidFlightData,
                   validFlightData, validOut, tables, lastCall>>

\* lines 147-148
ProcessInvalid ==
    /\ pc = "processInvalid"
    /\ LET r == processFlights(invalidFlightData, airportsData, aeroplanesData)
           after == processArguments(invalidFlightData, airportsData, aeroplanesData)
       IN  /\ invalidOut' = [done |-> TRUE, results |-> r.results,
                              errorMessages |-> r.errorMessages]
           /\ invalidFlightData' = after.flights
           /\ airportsData' = after.airports
           /\ aeroplanesData' = after.aeroplanes
    /\ pc' = "showInvalidErrors"
    /\ UNCHANGED <<files, written, console, validFlightData, validOut, tables, lastCall>>

\* lines 151-154, then the function returns
ShowInvalidErrors ==
    /\ pc = "showInvalidErrors"
    /\ console' = IF Len(invalidOut.errorMessages) > 0
                  THEN console
                       \o <<Log("Errors encountered in invalid flight processing:")>>
                       \o errorLines(invalidOut.errorMessages)
                  ELSE console
    /\ pc' = "done"
    /\ UNCHANGED <<files, written, locals, tables, lastCall>>

-----------------------------------------------------------------------------

\* a test ends and the next one starts afresh (part_001 128: mockClear)
TestEnd ==
    /\ pc = "done" \/ lastCall # NoCall
    /\ files' = DefaultFiles
    /\ written' = <<>>
    /\ console' = <<>>
    /\ pc' = "idle"
    /\ airportsData' = <<>>
    /\ aeroplanesData' = <<>>
    /\ validFlightData' = <<>>
    /\ invalidFlightData' = <<>>
    /\ validOut' = NotComputed
    /\ invalidOut' = NotComputed
    /\ lastCall' = NoCall
    /\ UNCHANGED tables

Next ==
    \/ CallReadCsv
    \/ CallReadCsvMissing
    \/ CallValidateAndCalculateProfit
    \/ CallProcessFlights
    \/ CallWriteResultsToFile
    \/ CallGenerateFlightReport
    \/ ReadAirports
    \/ ReadAeroplanes
    \/ ReadValid
    \/ ReadInvalid
    \/ ProcessValid
    \/ ShowValid
    \/ WriteReport
    \/ ShowValidErrors
    \/ ProcessInvalid
    \/ ShowInvalidErrors
    \/ TestEnd

Spec == Init /\ [][Next]_vars

-----------------------------------------------------------------------------
(* Properties *)

\* the k-th smallest element of a set of numbers
Nth(S, k) == CHOOSE i \in S : Cardinality({j \in S : j < i}) = k - 1

\* the positions of the requests whose own evaluation succeeds
Succeeding(flights, ports, planes) ==
    {i \in 1..Len(flights) : ~validateAndCalculateProfit(flights[i], ports, planes).threw}

\* out holds, in input order, the figures of the requests that evaluate and
\* the messages of those that do not, each request in exactly one list
Partitioned(flights, ports, planes, out) ==
    LET good == Succeeding(flights, ports, planes)
        bad == (1..Len(flights)) \ good
    IN  /\ Len(out.results) = Cardinality(good)
        /\ Len(out.errorMessages) = Cardinality(bad)
        /\ \A k \in 1..Len(out.results) :
            out.results[k]
              = validateAndCalculateProfit(flights[Nth(good, k)], ports, planes).value
        /\ \A k \in 1..Len(out.errorMessages) :
            out.errorMessages[k]
              = "Flight Data: " \o join(flights[Nth(bad, k)], ", ") \o " - Error: "
                \o validateAndCalculateProfit(flights[Nth(bad, k)], ports, planes).message

\* C1: processFlights returns as results the input-order subsequence of the
\* requests whose own evaluation succeeds, with that evaluation's figures,
\* and as errorMessages the input-order subsequence of those whose
\* evaluation fails, each 'Flight Data: <fields> - Error: <reason>'; every
\* request is in exactly one list, whatever the requests before it did.
\* It holds of a direct call and of both calls inside generateFlightReport.
C1_BatchPartition ==
    /\ lastCall.fn = "processFlights"
         => Partitioned(lastCall.flights, airports, aeroplanes, lastCall.out)
    /\ validOut.done
         => Partitioned(validFlightData, airportsData, aeroplanesData, validOut)
    /\ invalidOut.done
         => Partitioned(invalidFlightData, airportsData, aeroplanesData, invalidOut)

\* a batch that fails, succeeds, fails: one result and two messages, each
\* naming its own record
C1_Witness ==
    /\ lastCall.fn = "processFlights"
    /\ lastCall.flights = <<InvalidFlight1, ValidFlight1, InvalidFlight3>>
    /\ Len(lastCall.out.results) = 1
    /\ lastCall.out.results[1].flightDetails = ValidFlight1
    /\ lastCall.out.errorMessages
         = << "Flight Data: MAN, JFK, Medium narrow body, 150, 12, 2, 399, 999, 1899"
              \o " - Error: Medium narrow body doesn't have the range to fly to JFK",
              "Flight Data: LGW, INVALID, Medium narrow body, 120, 8, 0, 150, 450, 0"
              \o " - Error: Invalid airport code: INVALID" >>

-----------------------------------------------------------------------------
(* What a request is, read off the request and the tables alone *)

Keys(table) == {table[i][1] : i \in 1..Len(table)}

\* the first row of the table with that key
RowOf(table, key) ==
    table[CHOOSE i \in 1..Len(table) :
            table[i][1] = key /\ \A j \in 1..(i - 1) : table[j][1] # key]

KnownDestination(f, ports) == f[2] \in Keys(ports)
KnownAircraft(f, planes) == f[3] \in Keys(planes)

\* the first distance column for the origin MAN, the second for any other
Distance(f, ports) ==
    IF f[1] = "MAN" THEN parseFloat(RowOf(ports, f[2])[3])
    ELSE parseFloat(RowOf(ports, f[2])[4])

MaxRange(f, planes) == parseFloat(RowOf(planes, f[3])[3])
\* the cost figure of the aircraft row, its pound sign dropped
CostFigure(f, planes) == parseFloat(removeFirst(RowOf(planes, f[3])[2], "£"))

\* seats booked and seats available per class: 1 economy, 2 business, 3 first
Classes == 1..3
Booked(f, c) == parseInt(f[3 + c])
Capacity(f, planes, c) == parseInt(RowOf(planes, f[3])[3 + c])
TotalBooked(f) == Add(Add(Booked(f, 1), Booked(f, 2)), Booked(f, 3))
TotalCapacity(f, planes) ==
    Add(Add(Capacity(f, planes, 1), Capacity(f, planes, 2)), Capacity(f, planes, 3))

\* The seven validations in their fixed order, each as what it rejects.
\* 1 unknown destination, 2 unknown aircraft, 3 insufficient range,
\* 4 total overbooking, 5 economy, 6 business, 7 first-class overbooking
Validations == 1..7

Rejects(v, f, ports, planes) ==
    CASE v = 1 -> ~KnownDestination(f, ports)
      [] v = 2 -> ~KnownAircraft(f, planes)
      [] v = 3 -> /\ KnownDestination(f, ports) /\ KnownAircraft(f, planes)
                  /\ Gt(Distance(f, ports), MaxRange(f, planes))
      [] v = 4 -> /\ KnownAircraft(f, planes)
                  /\ Gt(TotalBooked(f), TotalCapacity(f, planes))
      [] OTHER -> /\ KnownAircraft(f, planes)
                  /\ Gt(Booked(f, v - 4), Capacity(f, planes, v - 4))

ClassName(c) == CASE c = 1 -> "economy" [] c = 2 -> "business" [] OTHER -> "first-class"

Reason(v, f, planes) ==
    CASE v = 1 -> "Invalid airport code: " \o f[2]
      [] v = 2 -> "Invalid aircraft type: " \o f[3]
      [] v = 3 -> f[3] \o " doesn't have the range to fly to " \o f[2]
      [] v = 4 -> "Too many total seats booked (" \o numToString(TotalBooked(f))
                  \o " > " \o numToString(TotalCapacity(f, planes)) \o ")"
      [] OTHER -> "Too many " \o ClassName(v - 4) \o " seats booked (" \o f[v - 1]
                  \o " > " \o numToString(Capacity(f, planes, v - 4)) \o ")"

Rejecting(f, ports, planes) == {v \in Validations : Rejects(v, f, ports, planes)}

Validated == lastCall.fn = "validateAndCalculateProfit"

\* C2: validateAndCalculateProfit fails exactly when some validation
\* rejects the request, and the one reason it reports is that of the
\* earliest rejecting validation in the order destination, aircraft, range,
\* total, economy, business, first class.
C2_FirstFailureWins ==
    Validated =>
        LET f == lastCall.flight
            rejecting == Rejecting(f, airports, aeroplanes)
        IN  /\ lastCall.out.threw <=> rejecting # {}
            /\ rejecting # {} =>
                 lastCall.out.message = Reason(Nth(rejecting, 1), f, aeroplanes)

\* a request that four validations reject reports the total overbooking only
C2_Witness ==
    /\ Validated
    /\ lastCall.flight = InvalidFlight2
    /\ Rejecting(lastCall.flight, airports, aeroplanes) = {4, 5, 6, 7}
    /\ lastCall.out.threw
    /\ lastCall.out.message = "Too many total seats booked (230 > 204)"

PassedEveryGate(f, ports, planes) == Rejecting(f, ports, planes) = {}

\* C3: a result object exists, as the return value of
\* validateAndCalculateProfit or as an element of processFlights' results,
\* only for a request that no validation rejects.
C3_ResultOnlyIfValid ==
    /\ Validated /\ ~lastCall.out.threw
         => /\ lastCall.out.value.flightDetails = lastCall.flight
            /\ PassedEveryGate(lastCall.flight, airports, aeroplanes)
    /\ lastCall.fn = "processFlights"
         => \A k \in 1..Len(lastCall.out.results) :
              /\ \E i \in 1..Len(lastCall.flights) :
                    lastCall.flights[i] = lastCall.out.results[k].flightDetails
              /\ PassedEveryGate(lastCall.out.results[k].flightDetails, airports, aeroplanes)
    /\ \A k \in 1..Len(validOut.results) :
         PassedEveryGate(validOut.results[k].flightDetails, airportsData, aeroplanesData)
    /\ \A k \in 1..Len(invalidOut.results) :
         PassedEveryGate(invalidOut.results[k].flightDetails, airportsData, aeroplanesData)

\* a result is returned for a request booked to the last seat of a class
C3_Witness ==
    /\ Validated
    /\ ~lastCall.out.threw
    /\ KnownAircraft(lastCall.flight, aeroplanes)
    /\ Booked(lastCall.flight, 2) = Capacity(lastCall.flight, aeroplanes, 2)

\* the three figures in hundredths, from the parsed columns
Income(f) ==
    Mul(Num(100), Add(Add(Mul(Booked(f, 1), parseFloat(f[7])),
                          Mul(Booked(f, 2), parseFloat(f[8]))),
                      Mul(Booked(f, 3), parseFloat(f[9]))))
Cost(f, ports, planes) ==
    Mul(Mul(CostFigure(f, planes), Distance(f, ports)), TotalBooked(f))

C5_UnknownDestination ==
    Validated /\ ~KnownDestination(lastCall.flight, airports) =>
        /\ lastCall.out.threw
        /\ lastCall.out.message = "Invalid airport code: " \o lastCall.flight[2]

\* the destination is unknown, and so is the aircraft, and the seats could
\* not be parsed
C5_Witness ==
    /\ Validated
    /\ lastCall.flight[2] = "INVALID"
    /\ lastCall.flight[3] = "Jumbo"
    /\ lastCall.flight[4] = "abc"
    /\ lastCall.out.threw
    /\ lastCall.out.message = "Invalid airport code: INVALID"

\* C6 as stated: every request whose aircraft type is not in the aircraft
\* table fails with 'Invalid aircraft type: <type>'.  It does not hold: the
\* destination is looked up first.
C6_AnyUnknownAircraft ==
    Validated /\ ~KnownAircraft(lastCall.flight, aeroplanes) =>
        /\ lastCall.out.threw
        /\ lastCall.out.message = "Invalid aircraft type: " \o lastCall.flight[3]

\* C6, amended: a request whose aircraft type is not in the aircraft table
\* and whose destination code is in the airport table fails with
\* 'Invalid aircraft type: <type>'.
C6_UnknownAircraft ==
    Validated /\ KnownDestination(lastCall.flight, airports)
              /\ ~KnownAircraft(lastCall.flight, aeroplanes) =>
        /\ lastCall.out.threw
        /\ lastCall.out.message = "Invalid aircraft type: " \o lastCall.flight[3]

C6_Witness ==
    /\ Validated
    /\ lastCall.flight[2] = "JFK"
    /\ lastCall.flight[3] = "Jumbo"
    /\ lastCall.flight[4] = "200"
    /\ lastCall.out.threw
    /\ lastCall.out.message = "Invalid aircraft type: Jumbo"

\* a <= b: false as soon as either side is NaN
Le(a, b) == ~a.nan /\ ~b.nan /\ a.v <= b.v

\* the bookings a class may have had before it was raised
BookingsOf(c) ==
    CASE c = 1 -> EconomyBookings \cup {"120"}
      [] c = 2 -> BusinessBookings \cup {"8"}
      [] OTHER -> FirstBookings

\* f is base with the seats of class c raised above the capacity of the
\* class, the other columns kept, the total still within the total capacity
RaisedFrom(base, f, c, planes) ==
    /\ f = [base EXCEPT ![3 + c] = f[3 + c]]
    /\ KnownAircraft(f, planes)
    /\ Le(Booked(base, c), Capacity(f, planes, c))
    /\ Gt(Booked(f, c), Capacity(f, planes, c))
    /\ Le(TotalBooked(f), TotalCapacity(f, planes))

\* C7 as stated: starting from any request, raising one class above its
\* capacity, the others fixed and the total within the total capacity,
\* makes the evaluation fail with that class's own overbooking reason.  It
\* does not hold: an earlier validation, or an earlier class that is
\* overbooked already, reports its own reason instead.
C7_RaisedFromAnyRequest ==
    Validated =>
        \A c \in Classes : \A s \in BookingsOf(c) :
            RaisedFrom([lastCall.flight EXCEPT ![3 + c] = s], lastCall.flight, c, aeroplanes)
              => /\ lastCall.out.threw
                 /\ lastCall.out.message = Reason(4 + c, lastCall.flight, aeroplanes)

\* C7, amended: starting from a request that evaluates successfully,
\* raising one class above its capacity, the others fixed and the total
\* within the total capacity, makes the evaluation fail with that class's
\* own overbooking reason.
C7_RaisedFromValidRequest ==
    Validated =>
        \A c \in Classes : \A s \in BookingsOf(c) :
            LET base == [lastCall.flight EXCEPT ![3 + c] = s]
            IN  (/\ ~validateAndCalculateProfit(base, airports, aeroplanes).threw
                 /\ RaisedFrom(base, lastCall.flight, c, aeroplanes))
                  => /\ lastCall.out.threw
                     /\ lastCall.out.message = Reason(4 + c, lastCall.flight, aeroplanes)

\* the first-class seats of a valid request raised from 2 to 5, one more than
\* the 4 of the aircraft, the total being 167 of 204
C7_Witness ==
    /\ Validated
    /\ lastCall.flight = [ValidFlight1 EXCEPT ![6] = "5"]
    /\ ~validateAndCalculateProfit(ValidFlight1, airports, aeroplanes).threw
    /\ RaisedFrom(ValidFlight1, lastCall.flight, 3, aeroplanes)
    /\ lastCall.out.threw
    /\ lastCall.out.message = "Too many first-class seats booked (5 > 4)"

-----------------------------------------------------------------------------

InputFiles == <<"airports.csv", "aeroplanes.csv", "valid_flight_data.csv",
                "invalid_flight_data.csv">>

Unreadable == {k \in 1..4 : ~files[InputFiles[k]].ok}

Running == pc # "idle"

\* C8: a failed read makes readCsv throw 'Error reading file: <cause>'; when
\* one of the four input files cannot be read generateFlightReport processes
\* no flight of either batch, writes no file, puts the message of the first
\* failed read on the error stream and returns; when all four are read the
\* run goes through both batches and writes the report, whatever records
\* fail validation.
C8_FatalReadAborts ==
    /\ lastCall.fn = "readCsv" /\ "missing" \in DOMAIN lastCall
         => /\ lastCall.out.threw
            /\ lastCall.out.message = "Error reading file: " \o files[lastCall.missing].data
    /\ Running /\ Unreadable # {}
         => /\ ~validOut.done
            /\ ~invalidOut.done
            /\ written = <<>>
            /\ console \in {<<>>, <<Error("Error reading file: "
                                           \o files[InputFiles[Nth(Unreadable, 1)]].data)>>}
            /\ pc = "done" => console # <<>>
    /\ pc = "done" /\ Unreadable = {}
         => /\ validOut.done
            /\ invalidOut.done
            /\ Len(written) = 1

\* the third file cannot be read: the run has returned with the one message
\* and nothing else
C8_Witness ==
    /\ pc = "done"
    /\ Unreadable = {3}
    /\ console = <<Error("Error reading file: ENOENT: no such file or directory, "
                         \o "open 'valid_flight_data.csv'")>>
    /\ written = <<>>
    /\ ~validOut.done
    /\ ~invalidOut.done

-----------------------------------------------------------------------------

\* digits, a point, two digits, after an optional minus sign
TwoDecimals(t) ==
    LET u == IF Len(t) > 0 /\ At(t, 1) = "-" THEN SubSeq(t, 2, Len(t)) ELSE t
    IN  /\ Len(u) >= 4
        /\ At(u, Len(u) - 2) = "."
        /\ \A i \in (1..Len(u)) \ {Len(u) - 2} : IsDigit(At(u, i))

\* text is one line per result, in order and in the report's form, lines
\* separated by one newline and none after the last
ReportOf(results, text) ==
    LET lines == IF text = "" THEN <<>> ELSE split(text, LF)
    IN  /\ Len(lines) = Len(results)
        /\ \A k \in 1..Len(results) :
            /\ lines[k] = "Flight: " \o join(results[k].flightDetails, ", ")
                          \o " | Income: £" \o results[k].income
                          \o " | Cost: £" \o results[k].cost
                          \o " | Profit: £" \o results[k].profit
            /\ TwoDecimals(results[k].income)
            /\ TwoDecimals(results[k].cost)
            /\ TwoDecimals(results[k].profit)

\* the report has a line for the record
Reported(flight, text) ==
    LET lines == split(text, LF)
        start == "Flight: " \o join(flight, ", ") \o " | "
    IN  \E k \in 1..Len(lines) :
            Len(lines[k]) >= Len(start) /\ SubSeq(lines[k], 1, Len(start)) = start

Failing(flights, ports, planes) ==
    {flights[i] : i \in (1..Len(flights)) \ Succeeding(flights, ports, planes)}

\* C9: the text writeResultsToFile writes has exactly one line per result,
\* in the order of the results, each 'Flight: <fields> | Income: £<2dp> |
\* Cost: £<2dp> | Profit: £<2dp>', separated by single newlines, none at the
\* end; the report of generateFlightReport is that of the successes of the
\* valid batch and has no line for a record that failed.
C9_ReportText ==
    /\ lastCall.fn = "writeResultsToFile"
         => /\ Len(written) = 1
            /\ written[1].filename = "output.txt"
            /\ ReportOf(lastCall.results, written[1].data)
    /\ Running /\ written # <<>>
         => /\ Len(written) = 1
            /\ written[1].filename = ReportFile
            /\ ReportOf(validOut.results, written[1].data)
            /\ \A flight \in Failing(validFlightData, airportsData, aeroplanesData)
                             \cup Failing(invalidFlightData, airportsData, aeroplanesData) :
                 ~Reported(flight, written[1].data)

\* the report of the two valid flights of the test suite
C9_Witness ==
    /\ pc = "done"
    /\ Len(validOut.errorMessages) = 0
    /\ Len(written) = 1
    /\ written[1].data
         = "Flight: MAN, JFK, Large narrow body, 150, 12, 2, 399, 999, 1899"
           \o " | Income: £75636.00 | Cost: £61716.48 | Profit: £13919.52" \o LF
           \o "Flight: LGW, ORY, Medium narrow body, 120, 8, 0, 150, 450, 0"
           \o " | Income: £21600.00 | Cost: £3328.00 | Profit: £18272.00"

-----------------------------------------------------------------------------

\* C10: readCsv of a content made of a header line and N data rows, each
\* holding a character that is not white space, with or without '#' comment
\* suffixes, returns exactly N rows, in order, each with the number of
\* fields of its data row; the header is not among them.
C10_RoundTrip ==
    lastCall.fn = "readCsv" /\ "generated" \in DOMAIN lastCall =>
        LET g == lastCall.generated
            out == lastCall.out
        IN  /\ ~out.threw
            /\ Len(out.value) = Len(g.rows)
            /\ \A i \in 1..Len(g.rows) :
                /\ Len(out.value[i]) = Len(g.rows[i].fields)
                /\ join(out.value[i], ",") = trim(join(g.rows[i].fields, ","))

\* two rows, of three fields and of one, both with a comment suffix, under a
\* header that reads like a data row
C10_Witness ==
    /\ lastCall.fn = "readCsv"
    /\ "generated" \in DOMAIN lastCall
    /\ lastCall.generated.header = "a"
    /\ lastCall.generated.finalNewline
    /\ Len(lastCall.generated.rows) = 2
    /\ lastCall.generated.rows[1] = [fields |-> <<"x", "", " z">>,
                                     comment |-> " # note, with a comma"]
    /\ lastCall.generated.rows[2] = [fields |-> <<"a">>, comment |-> "#a#b"]
    /\ lastCall.out = Return(<< <<"x", "", " z">>, <<"a">> >>)

-----------------------------------------------------------------------------

-----------------------------------------------------------------------------

\* the request f with another origin code
From(o, f) == [f EXCEPT ![1] = o]

\* the outcome apart from the request it carries
Outcome(out) ==
    IF out.threw THEN <<"fails", out.message>>
    ELSE <<"succeeds", out.value.income, out.value.cost, out.value.profit>>

\* C12: the distance of the range check and of the cost is the airport
\* row's first distance column when the origin code is exactly 'MAN' and
\* its second distance column for any other origin code; and no origin
\* code makes the evaluation fail by itself: an origin other than 'MAN',
\* of an airport or of none, gives the outcome any other such origin gives.
C12_DistanceByOrigin ==
    Validated =>
        LET f == lastCall.flight
            out == lastCall.out
        IN  /\ KnownDestination(f, airports) /\ KnownAircraft(f, aeroplanes) =>
                LET row == RowOf(airports, f[2])
                    d == parseFloat(IF f[1] = "MAN" THEN row[3] ELSE row[4])
                IN  /\ (out.threw /\ out.message = Reason(3, f, aeroplanes))
                         <=> Gt(d, MaxRange(f, aeroplanes))
                    /\ ~out.threw =>
                         out.value.cost
                           = toFixed2(Mul(Mul(CostFigure(f, aeroplanes), d), TotalBooked(f)))
            /\ \A o \in Origins :
                 (o = "MAN") = (f[1] = "MAN") =>
                     Outcome(validateAndCalculateProfit(From(o, f), airports, aeroplanes))
                       = Outcome(out)
            /\ out.threw => \E v \in Validations : out.message = Reason(v, f, aeroplanes)

\* from ' MAN', which is not exactly 'MAN', the airport at the edge is one
\* kilometre too far for the Medium narrow body, while from 'MAN' the same
\* request is in range
C12_Witness ==
    /\ Validated
    /\ lastCall.flight
         = <<" MAN", "EDG", "Medium narrow body", "150", "12", "0", "150", "450", "0">>
    /\ lastCall.out = Throw("Medium narrow body doesn't have the range to fly to EDG")
    /\ ~validateAndCalculateProfit(From("MAN", lastCall.flight), airports, aeroplanes).threw

-----------------------------------------------------------------------------

\* every seat count of the request reads as a number
Counted(f) == \A c \in Classes : ~Booked(f, c).nan

StartsWith(text, prefix) ==
    Len(text) >= Len(prefix) /\ SubSeq(text, 1, Len(prefix)) = prefix

\* the kinds of overbooking failure, told by how the message starts
TotalOverbooking(message) == StartsWith(message, "Too many total seats booked (")
ClassOverbooking(message, c) ==
    StartsWith(message, "Too many " \o ClassName(c) \o " seats booked (")

\* C13: a failure with the total-overbooking reason happens only when some
\* class's booked seats exceed that class's capacity; a class's own
\* overbooking reason is reported only for a request whose total booked
\* seats do not exceed the total capacity (are at or below it, when every
\* seat count reads as a number); and a request with no class above its
\* capacity never fails the total check.  The seat checks are reached only
\* with the destination and the aircraft found (C5, C6).
C13_TotalImpliesClass ==
    (/\ Validated
     /\ lastCall.out.threw
     /\ KnownDestination(lastCall.flight, airports)
     /\ KnownAircraft(lastCall.flight, aeroplanes)) =>
        LET f == lastCall.flight
            message == lastCall.out.message
        IN  /\ TotalOverbooking(message)
                 => \E c \in Classes : Gt(Booked(f, c), Capacity(f, aeroplanes, c))
            /\ (\E c \in Classes : ClassOverbooking(message, c))
                 => /\ ~Gt(TotalBooked(f), TotalCapacity(f, aeroplanes))
                    /\ Counted(f) => Le(TotalBooked(f), TotalCapacity(f, aeroplanes))
            /\ (\A c \in Classes : ~Gt(Booked(f, c), Capacity(f, aeroplanes, c)))
                 => ~TotalOverbooking(message)

\* the total check fails at 205 seats on an aircraft of 204, where only the
\* first class (5 > 4) is above its capacity
C13_Witness ==
    /\ Validated
    /\ lastCall.flight[3] = "Large narrow body"
    /\ lastCall.flight[4] = "180"
    /\ lastCall.flight[5] = "20"
    /\ lastCall.flight[6] = "5"
    /\ lastCall.out = Throw("Too many total seats booked (205 > 204)")

\* every class exactly at its capacity: the total check lets the request
\* through
C13_FullFlight ==
    /\ Validated
    /\ lastCall.flight[3] = "Large narrow body"
    /\ lastCall.flight[4] = "180"
    /\ lastCall.flight[5] = "20"
    /\ lastCall.flight[6] = "4"
    /\ ~lastCall.out.threw

-----------------------------------------------------------------------------

\* the requests of the batch that pass validation
Passing(flights, ports, planes) ==
    {flights[i] : i \in Succeeding(flights, ports, planes)}

\* the console entries of a stream whose text starts as given
Shown(stream, start) ==
    {k \in 1..Len(console) :
        console[k].stream = stream /\ StartsWith(console[k].text, start)}

\* C14: in a run of generateFlightReport where all four files load, the
\* report is written exactly once, from the successes of the valid batch
\* only and before the invalid batch is processed; a request of the invalid
\* batch that passes validation adds no line to the report (the report has a
\* line for it only when the valid batch holds the same record), is not
\* shown as a valid flight and is not reported as an error.
C14_ReportBeforeInvalidBatch ==
    Running /\ Unreadable = {} =>
        /\ Len(written) <= 1
        /\ pc \in {"writeReport", "showValidErrors", "processInvalid"} => ~invalidOut.done
        /\ pc \in {"showValidErrors", "processInvalid", "showInvalidErrors", "done"}
             => /\ validOut.done
                /\ Len(written) = 1
                /\ written[1].filename = ReportFile
                /\ ReportOf(validOut.results, written[1].data)
        /\ pc = "done"
             => /\ invalidOut.done
                /\ Cardinality(Shown("log", "Valid Flight: ")) = Len(validOut.results)
                /\ Cardinality(Shown("error", "")) = Len(validOut.errorMessages)
                     + Cardinality((1..Len(invalidFlightData))
                         \ Succeeding(invalidFlightData, airportsData, aeroplanesData))
                /\ \A flight \in Passing(invalidFlightData, airportsData, aeroplanesData) :
                     /\ Shown("error", "Flight Data: " \o join(flight, ", ") \o " - Error: ")
                          = {}
                     /\ flight \notin Passing(validFlightData, airportsData, aeroplanesData)
                          => /\ ~Reported(flight, written[1].data)
                             /\ Shown("log", "Valid Flight: " \o join(flight, ", ") \o " | ")
                                  = {}

\* the run is over; the invalid flights file held the two valid flights, the
\* valid flights file only the second of them: the report is that one line
\* and nothing was said of the first
C14_Witness ==
    /\ pc = "done"
    /\ Unreadable = {}
    /\ validFlightData = <<InvalidFlight1, ValidFlight2, InvalidFlight3>>
    /\ invalidFlightData = <<ValidFlight1, ValidFlight2>>
    /\ Len(invalidOut.results) = 2
    /\ Len(written) = 1
    /\ written[1].data
         = "Flight: LGW, ORY, Medium narrow body, 120, 8, 0, 150, 450, 0"
           \o " | Income: £21600.00 | Cost: £3328.00 | Profit: £18272.00"
    /\ Len(console) = 4

====
